---- MODULE Spec2Model ----
(***************************************************************************)
(* dagmaid: the dual-channel diagram manager of utils.js                   *)
(* (createDiagramManager) together with the pure parsing functions it      *)
(* uses (getTimestamp, parseStates, isAttrChange, extractDiagram).         *)
(*                                                                         *)
(* Strings are modelled as the sequence of their lines (s.split('\n')),    *)
(* every line being a record that tells what the regular expressions of    *)
(* utils.js can see of it.  JavaScript null/undefined is the empty tuple   *)
(* None, a present value x is the 1-tuple Some(x).                         *)
(***************************************************************************)
EXTENDS Integers, Sequences, FiniteSets, TLC

None == <<>>
Some(x) == <<x>>

---------------------------------------------------------------------------
(* Lines of a resource text *)

\* a line that does not start with '%%'
CodeLine(s) == [kind |-> "code", s |-> s]
\* the empty line ''
BlankLine == [kind |-> "blank"]
\* '%% Status: <value>'
StatusLine(value) == [kind |-> "status", value |-> value]
\* '%% <id>: <state> (<runtime>s)', or '%% <id>: <state>' when runtime = None
BlockLine(id, state, runtime) ==
    [kind |-> "block", id |-> id, state |-> state, runtime |-> runtime]

IsComment(line) == line.kind \in {"status", "block"}

---------------------------------------------------------------------------
(* Bounds and input vocabulary *)

\* fetches that may be awaiting their response at the same time
MaxInFlight == 2
\* interval timers the environment lets exist at the same time
MaxTimers == 2
Bodies == {"graph LR; Read --> Copy", "graph LR; Read --> Write"}
StatusValues == {"2025-10-05T22:00:00Z", "2025-10-05T22:00:30Z"}
BlockIds == {"Read"}
States == {"Running", "Success"}
Runtimes == {5, 12}
Callbacks == {"cbThrows", "cbOk"}

\* what a callback does when called: cbThrows raises an exception
Throws(callback) == callback = "cbThrows"

BlockLines ==
    {BlockLine(id, st, Some(rt)) : id \in BlockIds, st \in States, rt \in Runtimes}
        \cup {BlockLine(id, "Waiting", None) : id \in BlockIds}

\* the block lines of one fetched text: none, or one line about a block
BlockLineSeqs == {<<>>} \cup {<<line>> : line \in BlockLines}

\* body, empty line, optional Status line, block lines (the layout of README.md)
MkText(body, status, blockLines) ==
    <<CodeLine(body), BlankLine>>
        \o (IF status = None THEN <<>> ELSE <<StatusLine(status[1])>>)
        \o blockLines

Texts ==
    {MkText(b, s, ls) : b \in Bodies,
                        s \in {None} \cup {Some(v) : v \in StatusValues},
                        ls \in BlockLineSeqs}

\* bodies a server sends along with a non-success status
ErrorBodies ==
    {<<CodeLine("<h1>404 Not Found</h1>")>>,
     MkText("graph LR; Read --> Copy", Some("2025-10-05T22:00:30Z"),
            <<BlockLine("Read", "Success", Some(12))>>)}

---------------------------------------------------------------------------
(* Pure functions of utils.js *)

\* new Date(value).getTime() in seconds after 2025-10-05T22:00:00Z; None is NaN
DateParse(value) ==
    CASE value = "2025-10-05T22:00:00Z" -> Some(0)
      [] value = "2025-10-06T00:00:00+02:00" -> Some(0)
      [] value = "2025-10-05T22:00:30Z" -> Some(30)
      [] value = "2025-10-05T22:01:00Z" -> Some(60)
      [] OTHER -> None

\* fileContent.match(/^%% Status:\s*(.+)$/m): the first Status line, if any
StatusMatch(fileContent) ==
    LET hits == {i \in 1..Len(fileContent) : fileContent[i].kind = "status"}
    IN IF hits = {} THEN None
       ELSE Some(fileContent[CHOOSE i \in hits : \A j \in hits : i <= j].value)

\* as getTimestamp, but the text of the Status value is returned unparsed
getTimestampText(fileContent) ==
    LET timestampMatch == StatusMatch(fileContent)
    IN IF timestampMatch = None THEN None ELSE Some(timestampMatch[1])

\* the Date of the Status line, or null (no match: TypeError, caught; NaN: null)
getTimestamp(fileContent) ==
    LET timestampMatch == StatusMatch(fileContent)
    IN IF timestampMatch = None THEN None ELSE DateParse(timestampMatch[1])

\* lines matched by /^%% (\w+):\s*(\w+)\s*\((\d+)s\)/gm: the duration is required
StateMatches(fileContent) ==
    {i \in 1..Len(fileContent) :
        fileContent[i].kind = "block" /\ fileContent[i].runtime # None}

\* as parseStates, but a block keeps what its first matching line says
parseStatesFirstWins(fileContent) ==
    LET matches == StateMatches(fileContent)
        first(id) == CHOOSE i \in matches :
                         /\ fileContent[i].id = id
                         /\ \A j \in matches : fileContent[j].id = id => i <= j
    IN [blockId \in {fileContent[i].id : i \in matches} |->
            [state |-> fileContent[first(blockId)].state,
             runtime |-> fileContent[first(blockId)].runtime[1]]]

\* Map blockId -> {state, runtime}; a later blockData.set replaces an earlier one
parseStates(fileContent) ==
    LET matches == StateMatches(fileContent)
        last(id) == CHOOSE i \in matches :
                        /\ fileContent[i].id = id
                        /\ \A j \in matches : fileContent[j].id = id => j <= i
    IN [blockId \in {fileContent[i].id : i \in matches} |->
            [state |-> fileContent[last(blockId)].state,
             runtime |-> fileContent[last(blockId)].runtime[1]]]

\* as isAttrChange, but a block of one map only is passed over
isAttrChangeOfShared(oldStates, newStates, attribute) ==
    \E blockId \in (DOMAIN oldStates) \cap (DOMAIN newStates) :
        oldStates[blockId][attribute] # newStates[blockId][attribute]

\* as isAttrChange, but the state is compared whatever the attribute asked for
isAttrChangeOfState(oldStates, newStates, attribute) ==
    \E blockId \in (DOMAIN oldStates) \cup (DOMAIN newStates) :
        \/ blockId \notin DOMAIN oldStates
        \/ blockId \notin DOMAIN newStates
        \/ oldStates[blockId].state # newStates[blockId].state

\* true when a block is in one map only or its attribute differs
isAttrChange(oldStates, newStates, attribute) ==
    \E blockId \in (DOMAIN oldStates) \cup (DOMAIN newStates) :
        \/ blockId \notin DOMAIN oldStates
        \/ blockId \notin DOMAIN newStates
        \/ oldStates[blockId][attribute] # newStates[blockId][attribute]

\* String.prototype.trim on a multi-line string: leading and trailing empty
\* lines go; the empty string is the single empty line
RECURSIVE TrimLeft(_)
TrimLeft(lines) ==
    IF lines = <<>> THEN <<BlankLine>>
    ELSE IF Head(lines) = BlankLine THEN TrimLeft(Tail(lines))
    ELSE lines

RECURSIVE TrimRight(_)
TrimRight(lines) ==
    IF lines = <<>> THEN <<BlankLine>>
    ELSE IF lines[Len(lines)] = BlankLine
         THEN TrimRight(SubSeq(lines, 1, Len(lines) - 1))
    ELSE lines

Trim(lines) == TrimLeft(TrimRight(lines))

\* the theme front matter for the default colours of extractColors(undefined);
\* it ends with '---\n\n', so the diagram text starts after one empty line
ThemeConfig ==
    <<CodeLine("---"), CodeLine("config:"), CodeLine("  theme: 'base'"),
      CodeLine("  themeVariables:"), CodeLine("    primaryColor: '#4472C4'"),
      CodeLine("    primaryTextColor: '#fff'"), CodeLine("---"), BlankLine>>

\* diagramText.includes('---\nconfig:')
IncludesConfig(lines) ==
    \E i \in 1..(Len(lines) - 1) :
        lines[i] = CodeLine("---") /\ lines[i + 1] = CodeLine("config:")

\* as extractDiagram, but the theme configuration is put in front in any case
extractDiagramAlwaysThemed(fileContent) ==
    LET diagramText ==
            Trim([i \in 1..Len(fileContent) |->
                    IF IsComment(fileContent[i]) THEN BlankLine ELSE fileContent[i]])
    IN ThemeConfig \o diagramText

\* comment lines emptied, trimmed, theme configuration put in front if missing
extractDiagram(fileContent) ==
    LET diagramText ==
            Trim([i \in 1..Len(fileContent) |->
                    IF IsComment(fileContent[i]) THEN BlankLine ELSE fileContent[i]])
    IN IF ~IncludesConfig(diagramText) THEN ThemeConfig \o diagramText
       ELSE diagramText

---------------------------------------------------------------------------
(* createDiagramManager: state *)

VARIABLES
    onRedrawSubs,   \* Set of callbacks, in insertion order
    onUpdateSubs,   \* Set of callbacks, in insertion order
    lastStates,     \* null or the Map of the retained parse
    lastDiagram,    \* null or the retained diagram text
    lastTimestamp,  \* null or the retained Date
    refreshTimer,   \* null or the handle setInterval returned
    timers,         \* environment: the interval timers that are active
    inflight,       \* environment: fetches whose promise is still pending
    lastText,       \* history: the text the last run of the then-handler got
    last,           \* history: the operation that ran last and what it did
    unhandled,      \* environment: a rejection no handler of the chain took
    regs,           \* history: the registrations made, in order
    resource,       \* environment: the text the server holds
    now,            \* environment: the clock, ms after 2025-10-05T22:00:00Z
    view,           \* the DAG container: what updateDiagram rendered last
    out,            \* what the functions under study returned for resource
    single,         \* the closure of the single-channel createDiagramManager
    network         \* the resource's version and the fetches under way

vars == <<onRedrawSubs, onUpdateSubs, lastStates, lastDiagram, lastTimestamp,
          refreshTimer, timers, inflight, lastText, last, unhandled,
          regs, resource, now, view, out, single, network>>

manager == <<lastStates, lastDiagram, lastTimestamp, refreshTimer, timers>>
\* what only the specifications of the consumers and of the ledger use
aside == <<regs, resource, now, view, out, single, network>>

subscriptions == <<onRedrawSubs, onUpdateSubs>>

\* an operation that fired no channel and called nobody
Did(op) == [op |-> op, fired |-> {}, calls |-> <<>>, threw |-> FALSE]

\* the writer has written version 1 of the resource, no fetch is under way and
\* no version has been delivered
Idle == [version |-> 1, pending |-> <<>>, processed |-> None, delivered |-> 0]

\* the single-channel closure after createDiagramManager(url)
SingleCreated == [subscribers |-> <<>>, lastFileContent |-> None, intervalId |-> None]

\* the variables of the closure after createDiagramManager(url)
Created ==
    /\ lastStates = None
    /\ lastDiagram = None
    /\ lastTimestamp = None
    /\ refreshTimer = None
    /\ timers = {}
    /\ inflight = 0
    /\ lastText = None
    /\ last = Did("create")
    /\ unhandled = FALSE

Init ==
    /\ Created
    /\ onRedrawSubs = <<>>
    /\ onUpdateSubs = <<>>
    /\ regs = <<>>
    /\ resource = None
    /\ now = 0
    /\ view = None
    /\ out = None
    /\ single = SingleCreated
    /\ network = Idle

---------------------------------------------------------------------------
(* createDiagramManager: notification *)

\* subs.forEach(callback => callback(fileContent)): the callbacks are called in
\* insertion order; an exception of one leaves forEach and the rest uncalled
forEach(subs, channel, fileContent) ==
    LET throwing == {i \in 1..Len(subs) : Throws(subs[i])}
        stop == IF throwing = {} THEN Len(subs)
                ELSE CHOOSE i \in throwing : \A j \in throwing : i <= j
    IN [calls |-> [i \in 1..stop |->
                     [channel |-> channel, callback |-> subs[i], arg |-> fileContent]],
        threw |-> throwing # {}]

triggerRedraw(fileContent) == forEach(onRedrawSubs, "redraw", fileContent)

triggerUpdate(fileContent) == forEach(onUpdateSubs, "update", fileContent)

\* lastTimestamp?.getTime(): undefined for null, else the instant
getTime(date) == date

\* the three assignments of the redraw branch
retainNoTimestamp(diagram, states, timestmap) ==
    [lastDiagram |-> Some(diagram), lastStates |-> Some(states),
     lastTimestamp |-> lastTimestamp]

retain(diagram, states, timestmap) ==
    [lastDiagram |-> Some(diagram), lastStates |-> Some(states),
     lastTimestamp |-> timestmap]

\* as thenHandler, but the update branch does not assign lastStates
thenHandlerKeepsStates(fileContent) ==
    LET diagram == extractDiagram(fileContent)
        states == parseStates(fileContent)
        timestmap == getTimestamp(fileContent)
        redraw == \/ lastDiagram # Some(diagram)
                  \/ isAttrChange(lastStates[1], states, "state")
                  \/ getTime(lastTimestamp) # getTime(timestmap)
        kept == IF redraw THEN retain(diagram, states, timestmap)
                ELSE [lastDiagram |-> lastDiagram, lastStates |-> lastStates,
                      lastTimestamp |-> lastTimestamp]
        r == IF redraw THEN triggerRedraw(fileContent)
             ELSE [calls |-> <<>>, threw |-> FALSE]
        update == ~r.threw /\ isAttrChange(kept.lastStates[1], states, "runtime")
        u == IF update THEN triggerUpdate(fileContent)
             ELSE [calls |-> <<>>, threw |-> FALSE]
    IN [lastDiagram |-> kept.lastDiagram,
        lastStates |-> kept.lastStates,
        lastTimestamp |-> kept.lastTimestamp,
        fired |-> (IF redraw THEN {"redraw"} ELSE {})
                      \cup (IF update THEN {"update"} ELSE {}),
        calls |-> r.calls \o u.calls,
        threw |-> r.threw \/ u.threw]

\* as thenHandler, but the runtime comparison and triggerUpdate come before
\* the redraw comparison
thenHandlerUpdateFirst(fileContent) ==
    LET diagram == extractDiagram(fileContent)
        states == parseStates(fileContent)
        timestmap == getTimestamp(fileContent)
        update == lastStates # None /\ isAttrChange(lastStates[1], states, "runtime")
        u == IF update THEN triggerUpdate(fileContent)
             ELSE [calls |-> <<>>, threw |-> FALSE]
        held == IF update THEN Some(states) ELSE lastStates
        redraw == /\ ~u.threw
                  /\ \/ lastDiagram # Some(diagram)
                     \/ isAttrChange(held[1], states, "state")
                     \/ getTime(lastTimestamp) # getTime(timestmap)
        kept == IF redraw THEN retain(diagram, states, timestmap)
                ELSE [lastDiagram |-> lastDiagram, lastStates |-> held,
                      lastTimestamp |-> lastTimestamp]
        r == IF redraw THEN triggerRedraw(fileContent)
             ELSE [calls |-> <<>>, threw |-> FALSE]
    IN [lastDiagram |-> kept.lastDiagram,
        lastStates |-> kept.lastStates,
        lastTimestamp |-> kept.lastTimestamp,
        fired |-> (IF redraw THEN {"redraw"} ELSE {})
                      \cup (IF update THEN {"update"} ELSE {}),
        calls |-> u.calls \o r.calls,
        threw |-> r.threw \/ u.threw]

\* the second .then of fetchAndUpdate: what it assigns, whom it calls and
\* whether an exception ends it
thenHandler(fileContent) ==
    LET diagram == extractDiagram(fileContent)
        states == parseStates(fileContent)
        timestmap == getTimestamp(fileContent)
        redraw == \/ lastDiagram # Some(diagram)
                  \/ isAttrChange(lastStates[1], states, "state")
                  \/ getTime(lastTimestamp) # getTime(timestmap)
        kept == IF redraw THEN retain(diagram, states, timestmap)
                ELSE [lastDiagram |-> lastDiagram, lastStates |-> lastStates,
                      lastTimestamp |-> lastTimestamp]
        r == IF redraw THEN triggerRedraw(fileContent)
             ELSE [calls |-> <<>>, threw |-> FALSE]
        update == ~r.threw /\ isAttrChange(kept.lastStates[1], states, "runtime")
        u == IF update THEN triggerUpdate(fileContent)
             ELSE [calls |-> <<>>, threw |-> FALSE]
    IN [lastDiagram |-> kept.lastDiagram,
        lastStates |-> IF update THEN Some(states) ELSE kept.lastStates,
        lastTimestamp |-> kept.lastTimestamp,
        fired |-> (IF redraw THEN {"redraw"} ELSE {})
                      \cup (IF update THEN {"update"} ELSE {}),
        calls |-> r.calls \o u.calls,
        threw |-> r.threw \/ u.threw]

\* as Respond, but the response of a stopped manager is dropped unprocessed
RespondUnlessStopped(kind, fileContent) ==
    /\ inflight > 0
    /\ \E h \in {thenHandler(fileContent)} :
        IF refreshTimer = None
        THEN /\ UNCHANGED <<lastDiagram, lastStates, lastTimestamp>>
             /\ last' = Did(kind)
        ELSE /\ lastDiagram' = h.lastDiagram
             /\ lastStates' = h.lastStates
             /\ lastTimestamp' = h.lastTimestamp
             /\ last' = [op |-> kind, fired |-> h.fired, calls |-> h.calls,
                         threw |-> h.threw]
    /\ inflight' = inflight - 1
    /\ lastText' = Some(fileContent)
    /\ unhandled' = unhandled
    /\ UNCHANGED <<refreshTimer, timers, subscriptions>>

\* a response arrived: r.text() and the handler run, .catch takes any exception
Respond(kind, fileContent) ==
    /\ inflight > 0
    /\ \E h \in {thenHandler(fileContent)} :
        /\ lastDiagram' = h.lastDiagram
        /\ lastStates' = h.lastStates
        /\ lastTimestamp' = h.lastTimestamp
        /\ last' = [op |-> kind, fired |-> h.fired, calls |-> h.calls,
                    threw |-> h.threw]
    /\ inflight' = inflight - 1
    /\ lastText' = Some(fileContent)
    /\ unhandled' = unhandled
    /\ UNCHANGED <<refreshTimer, timers, subscriptions>>

\* fetch resolved with a 2xx response
FetchOk == \E fileContent \in Texts : Respond("ok", fileContent)

\* fetch resolved with a response whose ok is false (404, 500): r.text() is
\* taken all the same
FetchHttpError == \E fileContent \in ErrorBodies : Respond("httpError", fileContent)

\* as FetchRejected, but without the .catch at the end of the chain
FetchRejectedUncaught ==
    /\ inflight > 0
    /\ inflight' = inflight - 1
    /\ last' = Did("rejected")
    /\ unhandled' = TRUE
    /\ UNCHANGED <<lastStates, lastDiagram, lastTimestamp, lastText,
                   refreshTimer, timers, subscriptions>>

\* fetch rejected: both .then are skipped, .catch swallows the error
FetchRejected ==
    /\ inflight > 0
    /\ inflight' = inflight - 1
    /\ last' = Did("rejected")
    /\ unhandled' = unhandled
    /\ UNCHANGED <<lastStates, lastDiagram, lastTimestamp, lastText,
                   refreshTimer, timers, subscriptions>>

---------------------------------------------------------------------------
(* createDiagramManager: lifecycle and subscription *)

\* the handle of a new interval timer: one no active timer has
NewHandle == CHOOSE h \in 1..(MaxTimers + 1) : h \notin timers

\* as Start, but without the early return when a timer is held
StartAgain ==
    /\ last' = Did("start")
    /\ inflight < MaxInFlight
    /\ Cardinality(timers) < MaxTimers
    /\ inflight' = inflight + 1
    /\ timers' = timers \cup {NewHandle}
    /\ refreshTimer' = Some(NewHandle)
    /\ UNCHANGED <<lastStates, lastDiagram, lastTimestamp>>
    /\ UNCHANGED <<lastText, unhandled, subscriptions>>

\* start(): nothing if a timer is held, else one fetch and one new timer
Start ==
    /\ last' = Did("start")
    /\ IF refreshTimer # None
       THEN UNCHANGED <<manager, inflight>>
       ELSE /\ inflight < MaxInFlight
            /\ Cardinality(timers) < MaxTimers
            /\ inflight' = inflight + 1
            /\ timers' = timers \cup {NewHandle}
            /\ refreshTimer' = Some(NewHandle)
            /\ UNCHANGED <<lastStates, lastDiagram, lastTimestamp>>
    /\ UNCHANGED <<lastText, unhandled, subscriptions>>

\* as Stop, but the handle is dropped without clearInterval
StopKeepsTimer ==
    /\ last' = Did("stop")
    /\ refreshTimer' = None
    /\ UNCHANGED <<timers, lastStates, lastDiagram, lastTimestamp, inflight,
                   lastText, unhandled, subscriptions>>

\* stop(): nothing if no timer is held, else the timer is cleared
Stop ==
    /\ last' = Did("stop")
    /\ IF refreshTimer = None
       THEN UNCHANGED <<refreshTimer, timers>>
       ELSE /\ timers' = timers \ {refreshTimer[1]}
            /\ refreshTimer' = None
    /\ UNCHANGED <<lastStates, lastDiagram, lastTimestamp, inflight, lastText,
                   unhandled, subscriptions>>

\* an active interval timer fires: fetchAndUpdate() issues a fetch
Tick ==
    /\ timers # {}
    /\ inflight < MaxInFlight
    /\ inflight' = inflight + 1
    /\ last' = Did("tick")
    /\ UNCHANGED <<manager, lastText, unhandled, subscriptions>>

\* Set.prototype.add: a new element goes to the end, a present one stays
SetAdd(set, x) ==
    IF \E i \in 1..Len(set) : set[i] = x THEN set ELSE Append(set, x)

\* Set.prototype.delete
SetDelete(set, x) == SelectSeq(set, LAMBDA y : y # x)

\* as onRedraw, but a callback registered after a fetch was processed is called
\* at once with the text of that fetch
onRedrawReplays(callback) ==
    /\ onRedrawSubs' = SetAdd(onRedrawSubs, callback)
    /\ last' = [op |-> "onRedraw", fired |-> {},
                calls |-> IF lastText = None THEN <<>>
                          ELSE <<[channel |-> "redraw", callback |-> callback,
                                  arg |-> lastText[1]]>>,
                threw |-> lastText # None /\ Throws(callback)]
    /\ UNCHANGED <<onUpdateSubs, manager, inflight, lastText, unhandled>>

onRedraw(callback) ==
    /\ onRedrawSubs' = SetAdd(onRedrawSubs, callback)
    /\ last' = Did("onRedraw")
    /\ UNCHANGED <<onUpdateSubs, manager, inflight, lastText, unhandled>>

onUpdate(callback) ==
    /\ onUpdateSubs' = SetAdd(onUpdateSubs, callback)
    /\ last' = Did("onUpdate")
    /\ UNCHANGED <<onRedrawSubs, manager, inflight, lastText, unhandled>>

\* the unsubscribe function onRedraw(callback) returned
unsubscribeRedraw(callback) ==
    /\ onRedrawSubs' = SetDelete(onRedrawSubs, callback)
    /\ last' = Did("unsubscribe")
    /\ UNCHANGED <<onUpdateSubs, manager, inflight, lastText, unhandled>>

\* the unsubscribe function onUpdate(callback) returned
unsubscribeUpdate(callback) ==
    /\ onUpdateSubs' = SetDelete(onUpdateSubs, callback)
    /\ last' = Did("unsubscribe")
    /\ UNCHANGED <<onRedrawSubs, manager, inflight, lastText, unhandled>>

Subscribe == \E callback \in Callbacks : onRedraw(callback) \/ onUpdate(callback)

\* Set.prototype.has
SetHas(set, x) == \E i \in 1..Len(set) : set[i] = x

\* the unsubscribe function of a callback that is registered is called
Unsubscribe ==
    \E callback \in Callbacks :
        \/ SetHas(onRedrawSubs, callback) /\ unsubscribeRedraw(callback)
        \/ SetHas(onUpdateSubs, callback) /\ unsubscribeUpdate(callback)

Next ==
    \/ Start /\ UNCHANGED aside
    \/ Stop /\ UNCHANGED aside
    \/ Tick /\ UNCHANGED aside
    \/ FetchOk /\ UNCHANGED aside
    \/ FetchHttpError /\ UNCHANGED aside
    \/ FetchRejected /\ UNCHANGED aside
    \/ Subscribe /\ UNCHANGED aside
    \/ Unsubscribe /\ UNCHANGED aside

Spec == Init /\ [][Next]_vars

---------------------------------------------------------------------------
(* createDiagramManager: subscription, with a ledger of the registrations *)

\* registrations a client makes on one manager
MaxRegs == 3

\* a call of onRedraw or onUpdate is noted: the channel, the callback, and
\* that the unsubscribe function it returned has not been called
Register(channel, callback) ==
    /\ Len(regs) < MaxRegs
    /\ regs' = Append(regs, [channel |-> channel, callback |-> callback,
                             live |-> TRUE])

HubOnRedraw ==
    \E callback \in Callbacks :
        /\ onRedraw(callback)
        /\ Register("redraw", callback)
        /\ UNCHANGED <<resource, now, view, out, single, network>>

HubOnUpdate ==
    \E callback \in Callbacks :
        /\ onUpdate(callback)
        /\ Register("update", callback)
        /\ UNCHANGED <<resource, now, view, out, single, network>>

\* the unsubscribe function some registration returned is called, be it for
\* the first time or again
HubUnsubscribe ==
    \E i \in 1..Len(regs) :
        /\ IF regs[i].channel = "redraw"
           THEN unsubscribeRedraw(regs[i].callback)
           ELSE unsubscribeUpdate(regs[i].callback)
        /\ regs' = [regs EXCEPT ![i].live = FALSE]
        /\ UNCHANGED <<resource, now, view, out, single, network>>

NextHub ==
    \/ HubOnRedraw
    \/ HubOnUpdate
    \/ HubUnsubscribe

SpecHub == Init /\ [][NextHub]_vars

---------------------------------------------------------------------------
(* createDiagramManager on texts that differ in their Status line only *)

\* no Status line, two values that are no date, two spellings of one instant
\* and another instant
StampValues ==
    {"soon", "later", "2025-10-05T22:00:00Z", "2025-10-06T00:00:00+02:00",
     "2025-10-05T22:00:30Z"}

StampTexts ==
    {MkText("graph LR; Read --> Copy", status,
            <<BlockLine("Read", "Running", Some(5))>>) :
        status \in {None} \cup {Some(v) : v \in StampValues}}

\* a 2xx response; out keeps the text that was processed before it
FetchStamped ==
    /\ \E fileContent \in StampTexts : Respond("ok", fileContent)
    /\ out' = lastText
    /\ UNCHANGED <<regs, resource, now, view, single, network>>

NextStamp ==
    \/ Start /\ UNCHANGED aside
    \/ Stop /\ UNCHANGED aside
    \/ Tick /\ UNCHANGED aside
    \/ FetchStamped
    \/ Subscribe /\ UNCHANGED aside

SpecStamp == Init /\ [][NextStamp]_vars

---------------------------------------------------------------------------
(* The single-channel createDiagramManager of the older utils.js *)

SingleTexts ==
    {MkText("graph LR; Read --> Copy", None, <<>>),
     MkText("graph LR; Read --> Copy", Some("2025-10-05T22:00:00Z"),
            <<BlockLine("Read", "Running", Some(5))>>),
     MkText("graph LR; Read --> Copy", Some("2025-10-05T22:00:00Z"),
            <<BlockLine("Read", "Success", Some(12))>>)}

\* what the dual-channel manager and the consumers hold
SingleFrame ==
    UNCHANGED <<lastStates, lastDiagram, lastTimestamp, refreshTimer,
                subscriptions, unhandled, regs, resource, now, view, out,
                network>>

\* subscribers.forEach with try/catch around each call: every callback is
\* called, in insertion order
notifySubscribers(fileContent) ==
    [i \in 1..Len(single.subscribers) |->
        [channel |-> "single", callback |-> single.subscribers[i],
         arg |-> fileContent]]

\* a response arrived: the text is kept and delivered if it is another one
SingleFetchOk ==
    \E fileContent \in SingleTexts :
        /\ inflight > 0
        /\ inflight' = inflight - 1
        /\ lastText' = Some(fileContent)
        /\ IF single.lastFileContent # Some(fileContent)
           THEN /\ single' = [single EXCEPT !.lastFileContent = Some(fileContent)]
                /\ last' = [op |-> "ok", fired |-> {"single"},
                            calls |-> notifySubscribers(fileContent),
                            threw |-> FALSE]
           ELSE /\ single' = single
                /\ last' = Did("ok")
        /\ UNCHANGED timers
        /\ SingleFrame

\* fetch rejected: .catch logs the error
SingleFetchRejected ==
    /\ inflight > 0
    /\ inflight' = inflight - 1
    /\ last' = Did("rejected")
    /\ UNCHANGED <<single, timers, lastText>>
    /\ SingleFrame

SingleStart ==
    /\ last' = Did("start")
    /\ IF single.intervalId # None
       THEN UNCHANGED <<single, timers, inflight>>
       ELSE /\ inflight < MaxInFlight
            /\ Cardinality(timers) < MaxTimers
            /\ inflight' = inflight + 1
            /\ timers' = timers \cup {NewHandle}
            /\ single' = [single EXCEPT !.intervalId = Some(NewHandle)]
    /\ UNCHANGED lastText
    /\ SingleFrame

SingleStop ==
    /\ last' = Did("stop")
    /\ IF single.intervalId = None
       THEN UNCHANGED <<single, timers>>
       ELSE /\ timers' = timers \ {single.intervalId[1]}
            /\ single' = [single EXCEPT !.intervalId = None]
    /\ UNCHANGED <<inflight, lastText>>
    /\ SingleFrame

SingleTick ==
    /\ timers # {}
    /\ inflight < MaxInFlight
    /\ inflight' = inflight + 1
    /\ last' = Did("tick")
    /\ UNCHANGED <<single, timers, lastText>>
    /\ SingleFrame

\* as subscribe, but the callback is not called with the content kept
subscribeNoReplay(callback) ==
    /\ single' = [single EXCEPT !.subscribers = SetAdd(@, callback)]
    /\ last' = Did("subscribe")
    /\ UNCHANGED <<inflight, timers, lastText>>
    /\ SingleFrame

\* subscribe(callback): added to the Set, and called at once with the content
\* kept if there is one; its exception is the caller's
subscribe(callback) ==
    /\ single' = [single EXCEPT !.subscribers = SetAdd(@, callback)]
    /\ last' = [op |-> "subscribe", fired |-> {},
                calls |-> IF single.lastFileContent = None THEN <<>>
                          ELSE <<[channel |-> "single", callback |-> callback,
                                  arg |-> single.lastFileContent[1]]>>,
                threw |-> single.lastFileContent # None /\ Throws(callback)]
    /\ UNCHANGED <<inflight, timers, lastText>>
    /\ SingleFrame

\* the unsubscribe function subscribe(callback) returned
unsubscribe(callback) ==
    /\ single' = [single EXCEPT !.subscribers = SetDelete(@, callback)]
    /\ last' = Did("unsubscribe")
    /\ UNCHANGED <<inflight, timers, lastText>>
    /\ SingleFrame

getSubscriberCount == Len(single.subscribers)

SingleSubscribe == \E callback \in Callbacks : subscribe(callback)

\* the unsubscribe function of a callback that is registered is called
SingleUnsubscribe ==
    \E callback \in Callbacks :
        SetHas(single.subscribers, callback) /\ unsubscribe(callback)

NextSingle ==
    \/ SingleStart
    \/ SingleStop
    \/ SingleTick
    \/ SingleFetchOk
    \/ SingleFetchRejected
    \/ SingleSubscribe
    \/ SingleUnsubscribe

SpecSingle == Init /\ [][NextSingle]_vars

---------------------------------------------------------------------------
(* A resource that is rewritten while fetches are under way *)

\* versions the writer writes
MaxVersions == 3

\* version v of the resource: the block finishes with version 2, its runtime
\* grows with every version
OrderText(v) ==
    MkText("graph LR; Read --> Copy", None,
           <<BlockLine("Read", IF v = 1 THEN "Running" ELSE "Success", Some(5 * v))>>)

InitOrder ==
    /\ Created
    /\ onRedrawSubs = <<>>
    /\ onUpdateSubs = <<>>
    /\ regs = <<>>
    /\ resource = OrderText(1)
    /\ now = 0
    /\ view = None
    /\ out = None
    /\ single = SingleCreated
    /\ network = Idle

OrderFrame == UNCHANGED <<regs, now, view, out, single>>

\* fetch(diagramUrl): the request is served with the version the server holds;
\* its response is under way
Issue ==
    [network EXCEPT !.pending = Append(@, [version |-> network.version,
                                           overtaken |-> FALSE])]

OrderStart ==
    /\ Start
    /\ network' = IF refreshTimer = None THEN Issue ELSE network
    /\ UNCHANGED resource
    /\ OrderFrame

OrderStop == Stop /\ UNCHANGED aside

OrderTick ==
    /\ Tick
    /\ network' = Issue
    /\ UNCHANGED resource
    /\ OrderFrame

OrderSubscribe == Subscribe /\ UNCHANGED aside

\* the sequence without its i-th element, the elements before it marked as
\* overtaken
Overtake(pending, i) ==
    [k \in 1..(Len(pending) - 1) |->
        IF k < i THEN [pending[k] EXCEPT !.overtaken = TRUE] ELSE pending[k + 1]]

\* the response of any fetch under way arrives, whichever was issued first:
\* each fetch is a request of its own and the handler runs when its response
\* has come
OrderFetchOk ==
    \E i \in 1..Len(network.pending) :
        /\ Respond("ok", OrderText(network.pending[i].version))
        /\ network' = [network EXCEPT
                !.pending = Overtake(@, i),
                !.processed = Some(network.pending[i]),
                !.delivered = IF last'.calls = <<>> THEN @
                              ELSE network.pending[i].version]
        /\ UNCHANGED resource
        /\ OrderFrame

\* the response of a fetch under way fails
OrderFetchRejected ==
    \E i \in 1..Len(network.pending) :
        /\ FetchRejected
        /\ network' = [network EXCEPT
                !.pending = [k \in 1..(Len(@) - 1) |->
                                IF k < i THEN @[k] ELSE @[k + 1]]]
        /\ UNCHANGED resource
        /\ OrderFrame

\* the writer writes the next version of the resource
OrderRewrite ==
    /\ network.version < MaxVersions
    /\ network' = [network EXCEPT !.version = @ + 1]
    /\ resource' = OrderText(network.version + 1)
    /\ UNCHANGED <<manager, subscriptions, inflight, lastText, last, unhandled>>
    /\ OrderFrame

NextOrder ==
    \/ OrderStart
    \/ OrderStop
    \/ OrderTick
    \/ OrderSubscribe
    \/ OrderFetchOk
    \/ OrderFetchRejected
    \/ OrderRewrite

SpecOrder == InitOrder /\ [][NextOrder]_vars

---------------------------------------------------------------------------
(* Callbacks that unsubscribe while a notification runs *)

\* updateDiagram and updateRuntimeOnly are the callbacks of initDAG; cbCleanup
\* calls the cleanup function initDAG returned
LeaveCallbacks == {"cbCleanup", "cbThrows"}

LeaveTexts == {OrderText(v) : v \in 1..MaxVersions}

\* cleanup(): unsubscribeRedraw(); unsubscribeUpdate()
cleanup(subs) ==
    [redraw |-> SetDelete(subs.redraw, "updateDiagram"),
     update |-> SetDelete(subs.update, "updateRuntimeOnly")]

\* what running the callback does to the two Sets
Effect(callback, subs) == IF callback = "cbCleanup" THEN cleanup(subs) ELSE subs

\* as unvisited, but forEach walks the entries the Set had when it began
unvisitedOfSnapshot(todo, set) == todo

\* Set.prototype.forEach visits an entry only if it is still in the Set when
\* its turn comes
unvisited(todo, set) == SelectSeq(todo, LAMBDA callback : SetHas(set, callback))

\* subs.forEach(callback => callback(fileContent)) with callbacks that may
\* delete entries: todo are the entries whose turn has not come
RECURSIVE walk(_, _, _, _)
walk(todo, subs, channel, fileContent) ==
    IF todo = <<>> THEN [subs |-> subs, calls |-> <<>>, threw |-> FALSE]
    ELSE LET callback == Head(todo)
             call == [channel |-> channel, callback |-> callback,
                      arg |-> fileContent]
             after == Effect(callback, subs)
         IN IF Throws(callback)
            THEN [subs |-> after, calls |-> <<call>>, threw |-> TRUE]
            ELSE LET rest == walk(unvisited(Tail(todo), after[channel]),
                                  after, channel, fileContent)
                 IN [subs |-> rest.subs, calls |-> <<call>> \o rest.calls,
                     threw |-> rest.threw]

\* the second .then of fetchAndUpdate with such callbacks
LeaveHandler(fileContent) ==
    LET diagram == extractDiagram(fileContent)
        states == parseStates(fileContent)
        timestmap == getTimestamp(fileContent)
        subs == [redraw |-> onRedrawSubs, update |-> onUpdateSubs]
        redraw == \/ lastDiagram # Some(diagram)
                  \/ isAttrChange(lastStates[1], states, "state")
                  \/ getTime(lastTimestamp) # getTime(timestmap)
        kept == IF redraw THEN retain(diagram, states, timestmap)
                ELSE [lastDiagram |-> lastDiagram, lastStates |-> lastStates,
                      lastTimestamp |-> lastTimestamp]
        r == IF redraw THEN walk(subs.redraw, subs, "redraw", fileContent)
             ELSE [subs |-> subs, calls |-> <<>>, threw |-> FALSE]
        update == ~r.threw /\ isAttrChange(kept.lastStates[1], states, "runtime")
        u == IF update THEN walk(r.subs.update, r.subs, "update", fileContent)
             ELSE [subs |-> r.subs, calls |-> <<>>, threw |-> FALSE]
    IN [lastDiagram |-> kept.lastDiagram,
        lastStates |-> IF update THEN Some(states) ELSE kept.lastStates,
        lastTimestamp |-> kept.lastTimestamp,
        fired |-> (IF redraw THEN {"redraw"} ELSE {})
                      \cup (IF update THEN {"update"} ELSE {}),
        calls |-> r.calls \o u.calls,
        threw |-> r.threw \/ u.threw,
        subs |-> u.subs]

\* out keeps the Sets a notification began with until the next operation
LeaveFrame ==
    /\ out' = None
    /\ UNCHANGED <<regs, resource, now, view, single, network>>

\* a response arrived and the handler ran
LeaveFetchOk ==
    \E fileContent \in LeaveTexts :
        /\ inflight > 0
        /\ \E h \in {LeaveHandler(fileContent)} :
            /\ lastDiagram' = h.lastDiagram
            /\ lastStates' = h.lastStates
            /\ lastTimestamp' = h.lastTimestamp
            /\ onRedrawSubs' = h.subs.redraw
            /\ onUpdateSubs' = h.subs.update
            /\ last' = [op |-> "ok", fired |-> h.fired, calls |-> h.calls,
                        threw |-> h.threw]
        /\ inflight' = inflight - 1
        /\ lastText' = Some(fileContent)
        /\ out' = Some([redraw |-> onRedrawSubs, update |-> onUpdateSubs])
        /\ UNCHANGED <<refreshTimer, timers, unhandled>>
        /\ UNCHANGED <<regs, resource, now, view, single, network>>

\* initDAG: onRedraw(updateDiagram) and onUpdate(updateRuntimeOnly)
LeaveInitDAG ==
    /\ onRedrawSubs' = SetAdd(onRedrawSubs, "updateDiagram")
    /\ onUpdateSubs' = SetAdd(onUpdateSubs, "updateRuntimeOnly")
    /\ last' = Did("initDAG")
    /\ UNCHANGED <<manager, inflight, lastText, unhandled>>
    /\ LeaveFrame

\* the cleanup function of initDAG is called outside a notification
LeaveCleanup ==
    /\ SetHas(onRedrawSubs, "updateDiagram") \/ SetHas(onUpdateSubs, "updateRuntimeOnly")
    /\ \E subs \in {cleanup([redraw |-> onRedrawSubs, update |-> onUpdateSubs])} :
        /\ onRedrawSubs' = subs.redraw
        /\ onUpdateSubs' = subs.update
    /\ last' = Did("cleanup")
    /\ UNCHANGED <<manager, inflight, lastText, unhandled>>
    /\ LeaveFrame

LeaveSubscribe ==
    /\ \E callback \in LeaveCallbacks : onRedraw(callback) \/ onUpdate(callback)
    /\ LeaveFrame

LeaveUnsubscribe ==
    /\ \E callback \in LeaveCallbacks :
        \/ SetHas(onRedrawSubs, callback) /\ unsubscribeRedraw(callback)
        \/ SetHas(onUpdateSubs, callback) /\ unsubscribeUpdate(callback)
    /\ LeaveFrame

\* fetchAndUpdate() is called, by start() or by the interval timer
LeaveFetch ==
    /\ inflight < MaxInFlight
    /\ inflight' = inflight + 1
    /\ last' = Did("fetch")
    /\ UNCHANGED <<manager, subscriptions, lastText, unhandled>>
    /\ LeaveFrame

NextLeave ==
    \/ LeaveFetch
    \/ LeaveFetchOk
    \/ FetchRejected /\ LeaveFrame
    \/ LeaveInitDAG
    \/ LeaveCleanup
    \/ LeaveSubscribe
    \/ LeaveUnsubscribe

SpecLeave == Init /\ [][NextLeave]_vars

---------------------------------------------------------------------------
(* The consumers: initDAG of mermaid-updater.js, initProgressBar *)

MAX_STATUS_AGE_S == 60

\* the diagram of README.md, its nodes labelled
LabelledBody == "graph LR; Read(Read Data) --> Copy(Create Backup)"

\* the ids that a line of diagram code labels as id(...) or id[...]
NodeLabels(s) ==
    CASE s = LabelledBody -> {"Read", "Copy"}
      [] OTHER -> {}

\* the blocks of a diagram that style() finds for their id
Labelled(diagram) ==
    UNION {NodeLabels(diagram[i].s) :
              i \in {j \in 1..Len(diagram) : diagram[j].kind = "code"}}

\* HH:mm:ss of a number of seconds, before padding
formatDuration(totalSeconds) ==
    [hours |-> totalSeconds \div 3600,
     minutes |-> (totalSeconds % 3600) \div 60,
     seconds |-> totalSeconds % 60]

\* as getStatusAge, but a timestamp in the future has the age 0
getStatusAgeClamped(fileContent, clock) ==
    LET timestamp == getTimestamp(fileContent)
    IN IF timestamp = None THEN None
       ELSE IF clock < 1000 * getTime(timestamp)[1] THEN Some(0)
       ELSE Some(clock - 1000 * getTime(timestamp)[1])

\* the age of the Status timestamp at the instant clock, in ms (the code
\* divides by 1000 to a fraction of seconds); None is null: getTime() of a
\* null timestamp raises a TypeError that the catch turns into null
getStatusAge(fileContent, clock) ==
    LET timestamp == getTimestamp(fileContent)
    IN IF timestamp = None THEN None
       ELSE Some(clock - 1000 * getTime(timestamp)[1])

\* as isStale, but an age of exactly MAX_STATUS_AGE_S is not stale
isStaleStrict(fileContent, clock) ==
    LET statusAge == getStatusAge(fileContent, clock)
    IN statusAge # None /\ statusAge[1] > MAX_STATUS_AGE_S * 1000

\* statusAge !== null && statusAge >= MAX_STATUS_AGE_S
isStale(fileContent, clock) ==
    LET statusAge == getStatusAge(fileContent, clock)
    IN statusAge # None /\ statusAge[1] >= MAX_STATUS_AGE_S * 1000

\* getAction(state)(runtime): the text of the status line under the label,
\* whether a spinner is shown, the class put on the node
getAction(state, stale, rt) ==
    CASE state = "Running" -> [text |-> rt, spinner |-> ~stale, cssClass |-> ""]
      [] state = "Success" -> [text |-> rt, spinner |-> FALSE, cssClass |-> "success"]
      [] state = "Failed" -> [text |-> rt, spinner |-> FALSE, cssClass |-> "failed"]
      [] OTHER -> [text |-> "-", spinner |-> FALSE, cssClass |-> ""]

\* what updateDiagram puts into the container at the instant clock: the
\* styles chosen and the decoration of every labelled block parseStates names
updateDiagram(fileContent, clock) ==
    LET stale == isStale(fileContent, clock)
        diagram == extractDiagram(fileContent)
        states == parseStates(fileContent)
    IN [stale |-> stale,
        currentStyles |-> IF stale
                          THEN <<"staleDefaultStyle", "staleSuccessStyle",
                                 "staleFailedStyle">>
                          ELSE <<"defaultStyle", "successStyle", "failedStyle">>,
        blocks |-> [blockId \in (DOMAIN states) \cap Labelled(diagram) |->
                       getAction(states[blockId].state, stale,
                                 formatDuration(states[blockId].runtime))]]

\* the text element of every decorated block parseStates names gets the runtime
updateRuntimeOnly(shown, fileContent) ==
    LET states == parseStates(fileContent)
    IN [shown EXCEPT !.blocks =
            [blockId \in DOMAIN shown.blocks |->
                IF blockId \in DOMAIN states
                THEN [shown.blocks[blockId] EXCEPT
                         !.text = formatDuration(states[blockId].runtime)]
                ELSE shown.blocks[blockId]]]

\* An IEEE 754 binary64 number is kept as its 53 mantissa bits in three limbs,
\* hi of 17 bits (its highest bit set), mid and lo of LimbBits bits, and the
\* exponent exp of the highest bit
LimbBits == 18
Limb == 2 ^ LimbBits
HiLimb == 2 ^ (LimbBits - 1)

\* the mantissa plus one unit of its last bit
Increment(x) ==
    IF x.lo + 1 < Limb THEN [x EXCEPT !.lo = @ + 1]
    ELSE IF x.mid + 1 < Limb THEN [x EXCEPT !.lo = 0, !.mid = @ + 1]
    ELSE IF x.hi + 1 < HiLimb THEN [x EXCEPT !.lo = 0, !.mid = 0, !.hi = @ + 1]
    ELSE [hi |-> HiLimb \div 2, mid |-> 0, lo |-> 0, exp |-> x.exp + 1]

\* round to nearest, ties to even: x is the exact value cut off, rest says
\* whether what was cut off is below ("lt"), at ("eq") or above ("gt") half a
\* unit of the last bit
RoundToEven(x, rest) ==
    IF rest = "gt" \/ (rest = "eq" /\ x.lo % 2 = 1) THEN Increment(x) ELSE x

\* binary places behind the point up to the first 1 of c / t, for c < t
RECURSIVE Lead(_, _)
Lead(c, t) == IF 2 * c >= t THEN 1 ELSE 1 + Lead(2 * c, t)

\* completedBlocks / totalBlocks in binary64, for 0 < c <= t: long division,
\* limb by limb
Float64Div(c, t) ==
    IF c = t THEN [hi |-> HiLimb \div 2, mid |-> 0, lo |-> 0, exp |-> 0]
    ELSE LET places == Lead(c, t)
             first == c * 2 ^ (places - 1)
             hi == (first * HiLimb) \div t
             afterHi == (first * HiLimb) % t
             mid == (afterHi * Limb) \div t
             afterMid == (afterHi * Limb) % t
             lo == (afterMid * Limb) \div t
             left == (afterMid * Limb) % t
         IN RoundToEven([hi |-> hi, mid |-> mid, lo |-> lo, exp |-> 0 - places],
                        IF 2 * left > t THEN "gt"
                        ELSE IF 2 * left = t THEN "eq" ELSE "lt")

\* x * 100 in binary64: the exact product has 59 or 60 bits, of which the 6
\* or 7 lowest are rounded away; the result keeps the limbs' places, so its hi
\* has up to 24 bits and its value is (hi, mid, lo) * 2^(exp - 52)
Float64Times100(x) ==
    LET lo == (100 * x.lo) % Limb
        mid == ((100 * x.mid) + ((100 * x.lo) \div Limb)) % Limb
        hi == (100 * x.hi) + ((100 * x.mid + ((100 * x.lo) \div Limb)) \div Limb)
        unit == IF hi >= 2 ^ 23 THEN 2 ^ 7 ELSE 2 ^ 6
        cut == lo % unit
        up == \/ 2 * cut > unit
              \/ 2 * cut = unit /\ (lo \div unit) % 2 = 1
        kept == (lo - cut) + (IF up THEN unit ELSE 0)
    IN IF kept < Limb THEN [hi |-> hi, mid |-> mid, lo |-> kept, exp |-> x.exp]
       ELSE IF mid + 1 < Limb
            THEN [hi |-> hi, mid |-> mid + 1, lo |-> 0, exp |-> x.exp]
       ELSE [hi |-> hi + 1, mid |-> 0, lo |-> 0, exp |-> x.exp]

\* Math.round of such a product: the integer part, plus one if the fraction
\* is a half or more; the binary point is 16 - exp bits into hi
MathRound(y) ==
    LET point == 2 ^ (LimbBits - 2 - y.exp)
    IN (y.hi \div point) + ((y.hi \div (point \div 2)) % 2)

\* totalBlocks > 0 ? Math.round((completedBlocks / totalBlocks) * 100) : 0
percentage(completedBlocks, totalBlocks) ==
    IF totalBlocks > 0
    THEN IF completedBlocks = 0 THEN 0
         ELSE MathRound(Float64Times100(Float64Div(completedBlocks, totalBlocks)))
    ELSE 0

\* what updateProgressBar renders at the instant clock
updateProgressBar(fileContent, clock) ==
    LET blockStates == parseStates(fileContent)
        totalBlocks == Cardinality(DOMAIN blockStates)
        completedBlocks ==
            Cardinality({blockId \in DOMAIN blockStates :
                            blockStates[blockId].state \in {"Success", "Failed"}})
    IN [stale |-> isStale(fileContent, clock),
        totalBlocks |-> totalBlocks,
        completedBlocks |-> completedBlocks,
        progress_pct |-> percentage(completedBlocks, totalBlocks)]

---------------------------------------------------------------------------
(* The percentage of the progress bar for texts of many blocks *)

\* block lines of one text
MaxBlocks == 200

\* the text delivered has totalBlocks lines about different blocks, of which
\* completedBlocks say Success or Failed
InitProgress ==
    /\ Created
    /\ onRedrawSubs = <<"updateProgressBar">>
    /\ onUpdateSubs = <<>>
    /\ regs = <<>>
    /\ resource \in {[totalBlocks |-> t, completedBlocks |-> c] :
                        t \in 0..MaxBlocks, c \in 0..MaxBlocks}
    /\ resource.completedBlocks <= resource.totalBlocks
    /\ now = 0
    /\ view = None
    /\ out = None
    /\ single = SingleCreated
    /\ network = Idle

\* updateProgressBar computes progress_pct from the two counts and renders it
ApplyProgress ==
    /\ out = None
    /\ out' = Some(percentage(resource.completedBlocks, resource.totalBlocks))
    /\ UNCHANGED <<manager, subscriptions, inflight, lastText, last, unhandled,
                   regs, resource, now, view, single, network>>

NextProgress == ApplyProgress

SpecProgress == InitProgress /\ [][NextProgress]_vars

---------------------------------------------------------------------------
(* The functions of the consumers applied to one text *)

\* status comment lines of one text
MaxBlockLines == 2

ParseIds == {"Read", "Copy"}
\* the four states of README.md and a token that is none of them
StateTokens == {"Waiting", "Running", "Success", "Failed", "Done"}

ParseLines ==
    {BlockLine(id, st, rt) : id \in ParseIds, st \in StateTokens,
                             rt \in {None, Some(12)}}

ParseTexts ==
    {MkText(LabelledBody, Some("2025-10-05T22:00:00Z"), ls) :
        ls \in UNION {[1..n -> ParseLines] : n \in 0..MaxBlockLines}}

InitParse ==
    /\ Created
    /\ onRedrawSubs = <<>>
    /\ onUpdateSubs = <<>>
    /\ regs = <<>>
    /\ resource \in ParseTexts
    /\ now = 0
    /\ view = None
    /\ out = None
    /\ single = SingleCreated
    /\ network = Idle

\* parseStates, updateDiagram and updateProgressBar are applied to the text
Apply ==
    /\ out = None
    /\ out' = Some([states |-> parseStates(resource),
                    dag |-> updateDiagram(resource, now),
                    bar |-> updateProgressBar(resource, now)])
    /\ UNCHANGED <<manager, subscriptions, inflight, lastText, last, unhandled,
                   regs, resource, now, view, single, network>>

NextParse == Apply

SpecParse == InitParse /\ [][NextParse]_vars

---------------------------------------------------------------------------
(* extractDiagram applied to one text, and to its own result *)

\* lines of one text
MaxExtractLines == 4

\* diagram code, the empty line, comment lines, the two lines that open a
\* theme configuration
ExtractLines ==
    {CodeLine("graph LR; Read --> Copy"), BlankLine,
     StatusLine("2025-10-05T22:00:00Z"), BlockLine("Read", "Running", Some(5)),
     CodeLine("---"), CodeLine("config:")}

ExtractTexts == UNION {[1..n -> ExtractLines] : n \in 1..MaxExtractLines}

InitExtract ==
    /\ Created
    /\ onRedrawSubs = <<>>
    /\ onUpdateSubs = <<>>
    /\ regs = <<>>
    /\ resource \in ExtractTexts
    /\ now = 0
    /\ view = None
    /\ out = None
    /\ single = SingleCreated
    /\ network = Idle

ApplyExtract ==
    /\ out = None
    /\ out' = Some([once |-> extractDiagram(resource),
                    twice |-> extractDiagram(extractDiagram(resource))])
    /\ UNCHANGED <<manager, subscriptions, inflight, lastText, last, unhandled,
                   regs, resource, now, view, single, network>>

NextExtract == ApplyExtract

SpecExtract == InitExtract /\ [][NextExtract]_vars

---------------------------------------------------------------------------
(* getTimestamp and getStatusAge applied to one text at one instant *)

\* instants of the clock, ms after 2025-10-05T22:00:00Z
Instants == {0, 59999, 60000}

InitAge ==
    /\ Created
    /\ onRedrawSubs = <<>>
    /\ onUpdateSubs = <<>>
    /\ regs = <<>>
    /\ resource \in StampTexts \cup Texts
    /\ now \in Instants
    /\ view = None
    /\ out = None
    /\ single = SingleCreated
    /\ network = Idle

ApplyAge ==
    /\ out = None
    /\ out' = Some([timestamp |-> getTimestamp(resource),
                    age |-> getStatusAge(resource, now)])
    /\ UNCHANGED <<manager, subscriptions, inflight, lastText, last, unhandled,
                   regs, resource, now, view, single, network>>

NextAge == ApplyAge

SpecAge == InitAge /\ [][NextAge]_vars

---------------------------------------------------------------------------
(* A manager with the DAG view and the progress bar subscribed *)

\* texts the writer of the resource puts there; "soon" is no date
ViewTexts ==
    {MkText(LabelledBody, status, <<BlockLine("Read", "Running", Some(rt))>>) :
        status \in {None, Some("soon"), Some("2025-10-05T22:00:00Z"),
                    Some("2025-10-05T22:00:30Z")},
        rt \in Runtimes}

\* after createDiagramManager, initDAG and initProgressBar
InitView ==
    /\ Created
    /\ onRedrawSubs = <<"updateDiagram", "updateProgressBar">>
    /\ onUpdateSubs = <<"updateRuntimeOnly">>
    /\ regs = <<>>
    /\ resource \in ViewTexts
    /\ now = 0
    /\ view = [dag |-> None, bar |-> None]
    /\ out = None
    /\ single = SingleCreated
    /\ network = Idle

\* one callback of the consumers runs at the instant clock
Call(v, call, clock) ==
    CASE call.callback = "updateDiagram" ->
            [v EXCEPT !.dag = Some([text |-> call.arg, at |-> clock,
                                    shown |-> updateDiagram(call.arg, clock)])]
      [] call.callback = "updateProgressBar" ->
            [v EXCEPT !.bar = Some([text |-> call.arg, at |-> clock,
                                    shown |-> updateProgressBar(call.arg, clock)])]
      [] call.callback = "updateRuntimeOnly" /\ v.dag # None ->
            [v EXCEPT !.dag = Some([v.dag[1] EXCEPT
                                      !.shown = updateRuntimeOnly(@, call.arg)])]
      [] OTHER -> v

\* the callbacks of one notification run one after the other
RECURSIVE Deliver(_, _, _)
Deliver(v, calls, clock) ==
    IF calls = <<>> THEN v
    ELSE Deliver(Call(v, Head(calls), clock), Tail(calls), clock)

ViewStart == Start /\ UNCHANGED aside

ViewTick == Tick /\ UNCHANGED aside

\* the server answers with the text it holds; the callbacks called render
ViewFetchOk ==
    /\ Respond("ok", resource)
    /\ view' = Deliver(view, last'.calls, now)
    /\ UNCHANGED <<regs, resource, now, out, single, network>>

ViewFetchRejected == FetchRejected /\ UNCHANGED aside

\* the writer replaces the text of the resource
Rewrite ==
    /\ resource' \in ViewTexts \ {resource}
    /\ UNCHANGED <<manager, subscriptions, inflight, lastText, last, unhandled,
                   regs, now, view, out, single, network>>

\* time passes
Advance ==
    /\ now' \in {t \in Instants : t > now}
    /\ UNCHANGED <<manager, subscriptions, inflight, lastText, last, unhandled,
                   regs, resource, view, out, single, network>>

NextView ==
    \/ ViewStart
    \/ ViewTick
    \/ ViewFetchOk
    \/ ViewFetchRejected
    \/ Rewrite
    \/ Advance

\* the interval timer keeps firing, time passes, and every fetch is answered:
\* again and again no fetch is pending
SpecView ==
    /\ InitView
    /\ [][NextView]_vars
    /\ WF_vars(ViewTick)
    /\ WF_vars(Advance)
    /\ []<>(inflight = 0)

---------------------------------------------------------------------------
(* Vocabulary of the properties *)

\* the step completed a poll cycle whose fetch resolved with a 2xx response
SuccessfulCycle == last'.op = "ok"

\* the text the handler of the completed cycle received
Fetched == lastText'[1]

\* the calls a notification made on a channel, in order
CallsOn(channel, calls) == SelectSeq(calls, LAMBDA c : c.channel = channel)

\* the callbacks of a sequence of calls
CalledBack(calls) == [i \in 1..Len(calls) |-> calls[i].callback]

\* some block of either map has no equal attribute in the other map
BlockAttrDiffers(old, new, attribute) ==
    \/ DOMAIN old # DOMAIN new
    \/ \E id \in DOMAIN old \cap DOMAIN new : old[id][attribute] # new[id][attribute]

\* the retained snapshot is missing or differs from the text in the attribute
RetainedDiffers(text, attribute) ==
    \/ lastStates = None
    \/ BlockAttrDiffers(lastStates[1], parseStates(text), attribute)

\* the manager holds its timer handle exactly while that one timer is active
TimerHeld == timers = (IF refreshTimer = None THEN {} ELSE {refreshTimer[1]})

---------------------------------------------------------------------------
(* Properties *)

\* C1: in every successful poll cycle in which a block's runtime differs
\* between the retained snapshot and the fetched text (or a block is in one of
\* them only, or nothing is retained), the update channel fires, whether or
\* not redraw fires in that cycle.
C1_UpdateFiresOnRuntimeChange ==
    [][(SuccessfulCycle /\ RetainedDiffers(Fetched, "runtime"))
          => "update" \in last'.fired]_vars

\* C2: in every successful poll cycle redraw fires exactly if nothing is
\* retained, or the diagram text, some block's state (a block in one map only
\* counts) or the timestamp instant differs from the retained one; every
\* redraw callback called gets the whole fetched text.
C2_RedrawIffChanged ==
    [][SuccessfulCycle =>
         /\ "redraw" \in last'.fired <=>
               \/ lastDiagram = None
               \/ lastDiagram[1] # extractDiagram(Fetched)
               \/ RetainedDiffers(Fetched, "state")
               \/ lastTimestamp # getTimestamp(Fetched)
         /\ \A i \in 1..Len(last'.calls) :
               last'.calls[i].channel = "redraw" => last'.calls[i].arg = Fetched
         /\ ("redraw" \in last'.fired /\ onRedrawSubs # <<>>)
               => CallsOn("redraw", last'.calls) # <<>>]_vars

\* C2 witness: a cycle fired redraw for a later text and a callback got it
C2_Witness ==
    /\ last.op = "ok"
    /\ "redraw" \in last.fired
    /\ \E i \in 1..Len(last.calls) :
          last.calls[i] = [channel |-> "redraw", callback |-> "cbOk",
                           arg |-> lastText[1]]
    /\ getTimestamp(lastText[1]) = Some(30)

\* two lines about the same block in the same state with different durations
RuntimeDiffers(before, after) ==
    /\ before.kind = "block"
    /\ after.kind = "block"
    /\ before.id = after.id
    /\ before.state = after.state
    /\ before.runtime # None
    /\ after.runtime # None
    /\ before.runtime # after.runtime

\* two texts that are equal line by line but for the durations of block lines
OnlyRuntimeDiffers(before, after) ==
    /\ Len(before) = Len(after)
    /\ \A i \in 1..Len(before) :
          before[i] = after[i] \/ RuntimeDiffers(before[i], after[i])
    /\ \E i \in 1..Len(before) :
          /\ RuntimeDiffers(before[i], after[i])
          /\ \A j \in (i + 1)..Len(after) :
                ~(after[j].kind = "block" /\ after[j].id = after[i].id
                    /\ after[j].runtime # None)

\* C3: when the text of a cycle differs from the text processed before it only
\* in block runtimes, the cycle fires update and does not fire redraw.
C3_RuntimeOnlyFiresUpdateOnly ==
    [][(SuccessfulCycle /\ lastText # None /\ OnlyRuntimeDiffers(lastText[1], Fetched))
          => last'.fired = {"update"}]_vars

\* C3 witness: a cycle called an update callback and fired no redraw
C3_Witness ==
    /\ last.op = "ok"
    /\ last.fired = {"update"}
    /\ CalledBack(last.calls) = <<"cbOk">>
    /\ lastStates[1]["Read"].runtime = 12

C5_RejectedFetchChangesNothing ==
    [][last'.op = "rejected" =>
         /\ UNCHANGED <<lastDiagram, lastStates, lastTimestamp, refreshTimer, timers>>
         /\ last'.calls = <<>>
         /\ last'.fired = {}
         /\ ~unhandled']_vars

\* C5 witness: a fetch was rejected while a snapshot is retained, the timer
\* runs and a callback is subscribed
C5_Witness ==
    /\ last.op = "rejected"
    /\ lastDiagram # None
    /\ refreshTimer # None
    /\ timers # {}
    /\ onRedrawSubs # <<>>

\* C6: a cycle whose fetch resolves with a non-success response does not parse
\* the body: the retained snapshot stays and no callback is called.
C6_HttpErrorIsFailure ==
    [][last'.op = "httpError" =>
         /\ UNCHANGED <<lastDiagram, lastStates, lastTimestamp>>
         /\ last'.calls = <<>>
         /\ last'.fired = {}]_vars

\* C7: at most one fetch of a manager is in flight at any time.
C7_OneFetchInFlight == inflight <= 1

\* C8: start() while running changes nothing; start() while not running issues
\* one fetch and creates one timer; the handle is held exactly while the one
\* timer is active.
C8_StartOnce ==
    /\ []TimerHeld
    /\ [][last'.op = "start" =>
            IF refreshTimer # None
            THEN UNCHANGED <<inflight, timers, refreshTimer>>
            ELSE /\ inflight' = inflight + 1
                 /\ refreshTimer' # None
                 /\ Cardinality(timers') = Cardinality(timers) + 1]_vars

\* C8 witness: start() was called on a running manager
C8_Witness ==
    /\ last.op = "start"
    /\ refreshTimer # None
    /\ inflight = 0

\* C9: stop() while not running changes nothing; while the manager is stopped
\* only start() issues a fetch.
C9_StopIdempotent ==
    /\ [][(last'.op = "stop" /\ refreshTimer = None) =>
             UNCHANGED <<manager, inflight, subscriptions, lastText, unhandled>>]_vars
    /\ [][(refreshTimer = None /\ inflight' > inflight) => last'.op = "start"]_vars
    /\ [][last'.op = "stop" => (refreshTimer' = None /\ timers' = {})]_vars

\* C9 witness: stop() was called on a stopped manager whose fetch is pending
C9_Witness ==
    /\ last.op = "stop"
    /\ refreshTimer = None
    /\ inflight > 0
    /\ lastDiagram # None

\* C10: every callback registered on a channel that fired is called, also
\* after a callback that throws, and the rest of the cycle runs.
C10_ThrowingCallbackIsolated ==
    last.op = "ok" =>
        /\ "redraw" \in last.fired =>
              CalledBack(CallsOn("redraw", last.calls)) = onRedrawSubs
        /\ "update" \in last.fired =>
              CalledBack(CallsOn("update", last.calls)) = onUpdateSubs

\* the callbacks registered on a channel, in insertion order
SubsOf(channel) == IF channel = "redraw" THEN onRedrawSubs ELSE onUpdateSubs

\* the step before completed a poll cycle: a response was processed
CycleDone == last.op \in {"ok", "httpError"}

\* C11: when a channel fires, each callback registered on it is called exactly
\* once within that cycle, and the calls come in the order of registration.
C11_EachOnceInOrder ==
    CycleDone =>
        \A channel \in last.fired :
            LET calls == CallsOn(channel, last.calls)
                subs == SubsOf(channel)
            IN /\ \A i \in 1..Len(subs) :
                     Cardinality({k \in 1..Len(calls) :
                                     calls[k].callback = subs[i]}) = 1
               /\ \A k \in 1..Len(calls) :
                     k <= Len(subs) /\ calls[k].callback = subs[k]

\* C12: an unsubscribe function removes the registration that returned it and
\* no other: a callback is registered on a channel exactly while some
\* registration of it on that channel has not been unsubscribed.
C12_ExactlyThatRegistration ==
    \A channel \in {"redraw", "update"}, callback \in Callbacks :
        SetHas(SubsOf(channel), callback) <=>
            \E i \in 1..Len(regs) :
                regs[i] = [channel |-> channel, callback |-> callback,
                           live |-> TRUE]

\* C13: onRedraw and onUpdate call nobody, whatever is retained; a callback
\* is called only within a poll cycle, on a channel that fired in it.
C13_NoReplayOnSubscribe ==
    /\ last.op \in {"onRedraw", "onUpdate"} => last.calls = <<>>
    /\ \A k \in 1..Len(last.calls) :
          CycleDone /\ last.calls[k].channel \in last.fired

\* C13 witness: a callback was registered for redraw after a snapshot had been
\* retained
C13_Witness ==
    /\ last.op = "onRedraw"
    /\ lastDiagram # None
    /\ SetHas(onRedrawSubs, "cbOk")

\* the DAG view shows a text whose Status timestamp is 60 s old or older while
\* the manager runs
ShownOld ==
    /\ refreshTimer # None
    /\ view.dag # None
    /\ LET statusAge == getStatusAge(view.dag[1].text, now)
       IN statusAge # None /\ statusAge[1] >= 60000

\* the DAG view was rendered in stale mode: stale styles, no spinner
ShownStale ==
    /\ view.dag # None
    /\ view.dag[1].shown.stale
    /\ \A blockId \in DOMAIN view.dag[1].shown.blocks :
          ~view.dag[1].shown.blocks[blockId].spinner

\* the resource holds another text than the one the DAG view shows
Rewritten == view.dag # None /\ resource # view.dag[1].text

\* C14: when the text shown has become 60 s old or older on a running manager,
\* the DAG view is eventually rendered in stale mode, unless the resource is
\* rewritten.
C14_StaleEventuallyShown == ShownOld ~> (ShownStale \/ Rewritten)

\* C15: the stale verdict of the DAG view and of the progress bar for a text
\* rendered at an instant is true exactly if the text has a Status line with
\* a date and that date lies 60000 ms or more before the instant.
C15_StaleIffSixtySeconds ==
    \A part \in {view.dag, view.bar} :
        part # None =>
            LET status == StatusMatch(part[1].text)
                instant == IF status = None THEN None ELSE DateParse(status[1])
            IN part[1].shown.stale <=>
                   (instant # None /\ part[1].at - 1000 * instant[1] >= 60000)

\* C15 witness: a text was rendered exactly 60 s after its timestamp, as stale
C15_Witness ==
    /\ view.dag # None
    /\ getTimestamp(view.dag[1].text) = Some(0)
    /\ view.dag[1].at = 60000
    /\ view.dag[1].shown.stale

\* the states README.md names
ValidStates == {"Waiting", "Running", "Success", "Failed"}

\* the block ids some status comment line of the text mentions
Mentioned(text) ==
    {text[i].id : i \in {j \in 1..Len(text) : text[j].kind = "block"}}

\* C16: a status comment line without duration, the last line about its
\* block, gives the block an entry with the state of the line and no runtime.
C16_DurationOptional ==
    out # None =>
        \A i \in 1..Len(resource) :
            (/\ resource[i].kind = "block"
             /\ resource[i].runtime = None
             /\ resource[i].state \in ValidStates
             /\ \A j \in (i + 1)..Len(resource) :
                   resource[j].kind = "block" => resource[j].id # resource[i].id)
            => /\ resource[i].id \in DOMAIN out[1].states
               /\ out[1].states[resource[i].id].state = resource[i].state
               /\ out[1].states[resource[i].id].runtime \notin Nat

\* C17: every entry of the map parseStates returns has one of the four states.
C17_StatesInVocabulary ==
    out # None =>
        \A blockId \in DOMAIN out[1].states :
            out[1].states[blockId].state \in ValidStates

\* C18: for a labelled block that no status comment line mentions, the DAG
\* view and the progress bar render what they render when a line reporting
\* the block as Waiting is added, and the progress bar counts the block as
\* a block not completed.
C18_UnmentionedIsWaiting ==
    out # None =>
        LET unmentioned == Labelled(extractDiagram(resource)) \ Mentioned(resource)
        IN /\ \A blockId \in unmentioned, rt \in {None, Some(12)} :
                 LET explicit == resource \o <<BlockLine(blockId, "Waiting", rt)>>
                 IN /\ updateDiagram(explicit, now) = out[1].dag
                    /\ updateProgressBar(explicit, now) = out[1].bar
           /\ out[1].bar.totalBlocks - out[1].bar.completedBlocks
                 >= Cardinality(unmentioned)

\* C19: after every processed fetch the retained diagram, block map and
\* timestamp equal the parse of the text of that fetch; before the first one
\* nothing is retained.
C19_RetainedIsParseOfLast ==
    IF lastText = None
    THEN lastDiagram = None /\ lastStates = None /\ lastTimestamp = None
    ELSE /\ lastDiagram = Some(extractDiagram(lastText[1]))
         /\ lastStates = Some(parseStates(lastText[1]))
         /\ lastTimestamp = getTimestamp(lastText[1])

\* C19 witness: a successful cycle fired update only and its callback threw
C19_Witness ==
    /\ last.op = "ok"
    /\ last.fired = {"update"}
    /\ last.threw

C21_StoppedCycleProcessed ==
    [][(SuccessfulCycle /\ refreshTimer = None) =>
         /\ lastDiagram' = Some(extractDiagram(Fetched))
         /\ lastStates' = Some(parseStates(Fetched))
         /\ lastTimestamp' = getTimestamp(Fetched)
         /\ "redraw" \in last'.fired <=>
               \/ lastText = None
               \/ extractDiagram(lastText[1]) # extractDiagram(Fetched)
               \/ BlockAttrDiffers(parseStates(lastText[1]),
                                   parseStates(Fetched), "state")
               \/ getTimestamp(lastText[1]) # getTimestamp(Fetched)
         /\ "redraw" \notin last'.fired =>
               ("update" \in last'.fired <=>
                   BlockAttrDiffers(parseStates(lastText[1]),
                                    parseStates(Fetched), "runtime"))
         /\ \A channel \in last'.fired :
               SubsOf(channel) # <<>> => CallsOn(channel, last'.calls) # <<>>]_vars

\* C21 witness: the response of a fetch issued before stop() arrived after
\* it and its text was delivered to a redraw callback
C21_Witness ==
    /\ last.op = "ok"
    /\ refreshTimer = None
    /\ timers = {}
    /\ "redraw" \in last.fired
    /\ CallsOn("redraw", last.calls) # <<>>

\* the lines of a text that are no Status line
SansStatus(text) == SelectSeq(text, LAMBDA line : line.kind # "status")

\* the instant the first Status line of a text denotes, if it denotes one
InstantOf(text) ==
    LET hits == {i \in 1..Len(text) : text[i].kind = "status"}
    IN IF hits = {} THEN None
       ELSE DateParse(text[CHOOSE i \in hits : \A j \in hits : i <= j].value)

\* C22: when a text differs from the text processed before it in the Status
\* line only, the cycle fires nothing if both denote the same instant or both
\* denote none, and fires redraw if exactly one of them denotes an instant.
C22_TimestampByInstant ==
    [][(SuccessfulCycle /\ lastText # None
            /\ SansStatus(lastText[1]) = SansStatus(Fetched)) =>
         /\ InstantOf(lastText[1]) = InstantOf(Fetched) =>
               (last'.fired = {} /\ last'.calls = <<>>)
         /\ (InstantOf(lastText[1]) = None) # (InstantOf(Fetched) = None) =>
               "redraw" \in last'.fired]_vars

\* C22 witness: a cycle fired nothing although its Status value, no date, is
\* another text than the Status value, no date either, processed before
C22_Witness ==
    /\ last.op = "ok"
    /\ last.fired = {}
    /\ onRedrawSubs # <<>>
    /\ out # None
    /\ StatusMatch(out[1]) = Some("soon")
    /\ StatusMatch(lastText[1]) = Some("later")

\* line i of the text is a status comment line with a duration
Matching(text, i) == text[i].kind = "block" /\ text[i].runtime # None

\* C23: the map of parseStates has an entry for exactly the block ids of the
\* comment lines with a duration, and the entry of a block says what the last
\* such line about the block says.
C23_LastLineWins ==
    out # None =>
        /\ \A i \in 1..Len(resource) :
              Matching(resource, i) => resource[i].id \in DOMAIN out[1].states
        /\ \A blockId \in DOMAIN out[1].states :
              \E i \in 1..Len(resource) :
                  /\ Matching(resource, i)
                  /\ resource[i].id = blockId
                  /\ \A j \in (i + 1)..Len(resource) :
                        ~(Matching(resource, j) /\ resource[j].id = blockId)
                  /\ out[1].states[blockId] =
                        [state |-> resource[i].state,
                         runtime |-> resource[i].runtime[1]]

\* C23 witness: two lines with a duration are about Read, the map says what
\* the second says
C23_Witness ==
    /\ out # None
    /\ Len(resource) = 5
    /\ resource[4] = BlockLine("Read", "Running", Some(12))
    /\ resource[5] = BlockLine("Read", "Success", Some(12))
    /\ out[1].states = [blockId \in {"Read"} |-> [state |-> "Success", runtime |-> 12]]

\* C24: getTimestamp returns null for a text without Status line or with a
\* Status value that is no date, and the instant of the value otherwise;
\* getStatusAge returns null exactly then, and the clock minus the instant
\* (in ms here) otherwise.
C24_SoftFailure ==
    out # None =>
        /\ out[1].timestamp = InstantOf(resource)
        /\ out[1].age = None <=> out[1].timestamp = None
        /\ InstantOf(resource) # None =>
              out[1].age = Some(now - 1000 * InstantOf(resource)[1])

\* C24 witness: the age of a timestamp 30 s in the future was computed
C24_Witness ==
    /\ out # None
    /\ out[1].timestamp = Some(30)
    /\ out[1].age = Some(0 - 30000)

\* the places of a text where a theme configuration opens
Preambles(text) ==
    {i \in 1..(Len(text) - 1) :
        text[i] = CodeLine("---") /\ text[i + 1] = CodeLine("config:")}

HasCode(text) == \E i \in 1..Len(text) : text[i].kind = "code"

C26_SingleChannelReplay ==
    /\ [][last'.op = "subscribe" =>
            IF single.lastFileContent = None THEN last'.calls = <<>>
            ELSE /\ Len(last'.calls) = 1
                 /\ last'.calls[1].arg = single.lastFileContent[1]
                 /\ SetHas(single'.subscribers, last'.calls[1].callback)]_vars
    /\ [][last'.op = "ok" =>
            IF single.lastFileContent = Some(Fetched)
            THEN last'.calls = <<>>
            ELSE /\ CalledBack(last'.calls) = single.subscribers
                 /\ \A k \in 1..Len(last'.calls) : last'.calls[k].arg = Fetched
                 /\ single'.lastFileContent = Some(Fetched)]_vars
    /\ [](getSubscriberCount =
             Cardinality({callback \in Callbacks :
                             SetHas(single.subscribers, callback)}))

\* C26 witness: a callback subscribed after a text had been fetched was called
\* with that text while another callback is registered
C26_Witness ==
    /\ last.op = "subscribe"
    /\ Len(last.calls) = 1
    /\ last.calls[1].callback = "cbOk"
    /\ single.lastFileContent = Some(last.calls[1].arg)
    /\ getSubscriberCount = 2

\* C27: the responses of one manager are processed in the order their fetches
\* were issued: the response of a fetch that a later-issued fetch's response
\* has overtaken neither replaces the snapshot kept nor calls a subscriber,
\* and the version delivered never goes back.
C27_IssueOrder ==
    [][last'.op = "ok" =>
        /\ network'.processed[1].overtaken =>
               /\ <<lastStates, lastDiagram, lastTimestamp>>' =
                      <<lastStates, lastDiagram, lastTimestamp>>
               /\ last'.calls = <<>>
        /\ network'.delivered >= network.delivered]_vars

\* the callbacks the cleanup function of initDAG unsubscribes
Cleaned == {"updateDiagram", "updateRuntimeOnly"}

\* C28: a callback whose unsubscribe function has returned is not called again
\* unless it is registered again: whoever is called was registered on the
\* channel when the step began, also by a response of a fetch issued earlier,
\* and no callback of initDAG is called after the cleanup ran within the same
\* notification.
C28_NeverAfterUnsubscribe ==
    [][\A k \in 1..Len(last'.calls) :
          LET call == last'.calls[k]
          IN /\ SetHas(SubsOf(call.channel), call.callback)
             /\ call.callback \in Cleaned =>
                    \A j \in 1..(k - 1) : last'.calls[j].callback # "cbCleanup"]_vars

\* C28 witness: the redraw notification began with cbCleanup before
\* updateDiagram; cbCleanup was called and updateDiagram was not
C28_Witness ==
    /\ last.op = "ok"
    /\ out # None
    /\ out[1].redraw = <<"cbCleanup", "updateDiagram">>
    /\ CalledBack(last.calls) = <<"cbCleanup">>
    /\ onRedrawSubs = <<"cbCleanup">>

\* round(100 * c / t), a half rounded up
RoundedPercent(c, t) == (200 * c + t) \div (2 * t)

\* C29: the progress bar renders round(100 * c / t) for t parsed blocks of
\* which c are Success or Failed, and 0 for t = 0; the percentage is an
\* integer from 0 to 100, and it is 100 exactly if t > 0 and every block is
\* Success or Failed.
C29_RoundedPercentage ==
    out # None =>
        LET t == resource.totalBlocks
            c == resource.completedBlocks
        IN /\ out[1] = IF t = 0 THEN 0 ELSE RoundedPercent(c, t)
           /\ out[1] \in 0..100
           /\ out[1] = 100 <=> (t > 0 /\ c = t)

====
